---------------------------- MODULE Spec2Model ----------------------------
(***************************************************************************)
(* A model of miner/miner.py (class StreamMiner): the admission check      *)
(* base_blacklist with its per-hotkey request window, the streaming        *)
(* dispatch _prompt with its provider branches, the message translation    *)
(* generate_messages_to_claude, and the embeddings request with its        *)
(* batches.  Each part has its own specification; the variables of the     *)
(* other parts then stay at their idle values.                             *)
(*                                                                         *)
(* Text is modelled as a sequence of characters, so that "".join and the   *)
(* concatenation of payloads are sequence concatenation; Python's None is  *)
(* the model value None.                                                   *)
(***************************************************************************)
EXTENDS Integers, Sequences, FiniteSets, TLC

VARIABLES
    \* ---- one streaming dispatch: _prompt(synapse, send) ----
    provider,            \* synapse.provider
    model,               \* synapse.model, reduced to the prefix the code tests
    chunks,              \* what the upstream stream yields, in order
    errAt,               \* the set of pulls at which the upstream raises
    hangAt,              \* the set of pulls at which the upstream never answers
    pc,                  \* position of the _prompt coroutine
    idx,                 \* number of chunks pulled so far
    buffer,              \* the local list `buffer`
    sink,                \* every message passed to send(), in order
    log,                 \* the bt.logging.error events of the dispatch
    sendFailed,          \* whether a send() raised, and the sends and pulls then
    \* ---- admission: base_blacklist ----
    metagraph,           \* self.metagraph: registered hotkey -> stake (S)
    ALLOW_NON_REGISTERED, \* cortext.ALLOW_NON_REGISTERED
    MAX_REQUESTS,        \* cortext.MAX_REQUESTS
    request_timestamps,  \* self.request_timestamps: dict hotkey -> deque
    last,                \* the latest blacklist_* call: arguments, clock, result
    admitted,            \* hotkey -> clock readings of its admitted calls
                         \* (kept only while simultaneous calls are observed)
    \* ---- one embeddings request: embeddings(synapse) ----
    texts,               \* synapse.texts
    batch_size,          \* the parameter batch_size of get_embeddings_in_batch
    epc,                 \* position of the embeddings coroutine
    tasks,               \* the input of each task created, in creation order
    results,             \* the outcome of each task, by position in `tasks`
    synapse_embeddings,  \* synapse.embeddings
    returned,            \* what embeddings() returned
    elog,                \* the bt.logging events of the request
    \* ---- one call of generate_messages_to_claude(messages) ----
    messages,            \* the argument `messages`
    mpc,                 \* position of the call
    midx,                \* number of messages the for loop has taken
    system_prompt,       \* the local system_prompt
    filtered_messages,   \* the local filtered_messages
    \* ---- a second dispatch in flight beside the first ----
    other                \* its provider, chunks, errAt, pc, idx, buffer, sink, log

dispatchVars == <<provider, model, chunks, errAt, hangAt, pc, idx, buffer, sink, log,
                  sendFailed>>
admitVars == <<metagraph, ALLOW_NON_REGISTERED, MAX_REQUESTS, request_timestamps,
               last, admitted>>
embedVars == <<texts, batch_size, epc, tasks, results, synapse_embeddings,
               returned, elog>>
msgVars == <<messages, mpc, midx, system_prompt, filtered_messages>>
vars == <<dispatchVars, admitVars, embedVars, msgVars, other>>

\* what an action of one part leaves alone
exceptDispatch == <<admitVars, embedVars, msgVars, other>>
exceptAdmit == <<dispatchVars, embedVars, msgVars, other>>
exceptEmbed == <<dispatchVars, admitVars, msgVars, other>>
exceptMsg == <<dispatchVars, admitVars, embedVars, other>>

\* embeddings state when no embeddings request is observed
IdleEmbed ==
    /\ texts = <<>>
    /\ batch_size = 1
    /\ epc = "Idle"
    /\ tasks = <<>>
    /\ results = <<>>
    /\ synapse_embeddings = [set |-> FALSE, value |-> <<>>]
    /\ returned = "pending"
    /\ elog = <<>>

\* Python's None, as a value that can be compared with any text
None == <<"None">>

\* the second dispatch when a single dispatch is observed: none
IdleOther == other = [pc |-> "None"]

\* generate_messages_to_claude state when no call of it is observed
IdleMsg ==
    /\ messages = <<>>
    /\ mpc = "Idle"
    /\ midx = 0
    /\ system_prompt = None
    /\ filtered_messages = <<>>

-----------------------------------------------------------------------------
(* Bounds of the model.                                                    *)

MaxChunks == 3      \* longest upstream chunk sequence
MaxParts == 2       \* most parts in one Gemini chunk

-----------------------------------------------------------------------------
(* Sequence helpers.                                                       *)

RECURSIVE Join(_)
\* "".join(list): the concatenation of a list of texts
Join(list) ==
    IF list = <<>> THEN <<>> ELSE Head(list) \o Join(Tail(list))

Last(s) == s[Len(s)]

Front(s) == SubSeq(s, 1, Len(s) - 1)

SeqsUpTo(S, k) == UNION {[1..m -> S] : m \in 0..k}

\* s or "": None and the empty text both become the empty text
OrEmpty(s) == IF s = None THEN <<>> ELSE s

\* Python truthiness of an optional text
Truthy(s) == s # None /\ s # <<>>

-----------------------------------------------------------------------------
(* The upstream side: what each provider's stream can yield.               *)

Texts == {<<>>, <<"a">>, <<"b">>}

KnownProviders == {"OpenAI", "AnthropicBedrock", "Anthropic", "Gemini", "Groq", "Bedrock"}
Providers == KnownProviders \cup {"Mystery"}

\* the model-name prefixes the Bedrock branch tests, and one it does not know
BedrockFamilies == {"cohere", "meta", "anthropic", "mistral", "amazon", "ai21"}
BedrockModels == BedrockFamilies \cup {"other"}

\* events of the Bedrock anthropic family: only a text_delta inside a
\* content_block_delta carries text
AnthropicEvents ==
    {[type |-> "message_start"]}
    \cup {[type |-> "content_block_delta", delta |-> [type |-> "input_json_delta"]]}
    \cup {[type |-> "content_block_delta", delta |-> [type |-> "text_delta", text |-> t]] :
            t \in Texts}

\* the values one chunk of the given provider/model can take
ChunkValues(p, m) ==
    CASE p \in {"OpenAI", "Groq"} -> Texts \cup {None}          \* delta.content
      [] p = "AnthropicBedrock" -> Texts \cup {None}            \* completion.completion
      [] p = "Anthropic" -> Texts                               \* text_stream item
      [] p = "Gemini" -> SeqsUpTo(Texts \ {<<>>}, MaxParts)    \* content.parts
      [] p = "Bedrock" /\ m = "anthropic" -> AnthropicEvents
      [] p = "Bedrock" /\ m = "ai21" -> Texts                   \* completions[0].data.text
      [] p = "Bedrock" -> Texts \cup {None}
      [] OTHER -> {}

\* the chunk sequences a provider can yield: ai21 answers with exactly one
\* non-streaming response, an unknown provider or model is never called
ChunkSeqs(p, m) ==
    CASE p = "Bedrock" /\ m = "ai21" -> [1..1 -> ChunkValues(p, m)]
      [] p = "Bedrock" /\ m = "other" -> {<<>>}
      [] p \notin KnownProviders -> {<<>>}
      [] OTHER -> SeqsUpTo(ChunkValues(p, m), MaxChunks)

\* errAt of an upstream that never raises
NoError == {}

\* hangAt of an upstream that always answers
NoHang == {}

\* chunk.text of a Gemini chunk: the text of all its parts
ChunkText(chunk) == Join(chunk)

\* extract_token(chunk) of the Bedrock branch
extract_token(m, chunk) ==
    CASE m \in {"cohere", "meta", "mistral", "amazon"} -> OrEmpty(chunk)
      [] m = "anthropic" ->
            IF chunk.type = "content_block_delta"
            THEN IF chunk.delta.type = "text_delta" THEN chunk.delta.text ELSE <<>>
            ELSE <<>>
      [] m = "ai21" -> chunk

-----------------------------------------------------------------------------
(* The sink side: messages passed to send().                               *)

Msg(body, more) == [body |-> body, more_body |-> more]

\* flush size of the token buffer
n == 1

\* one iteration of the buffered loop (OpenAI, Groq, Bedrock streaming):
\* append the token, flush when the buffer holds n tokens
\* BufferedStep that takes an empty token for the end of the stream
BufferedStepEmptyIsFinal(buf, token) ==
    IF token = <<>>
    THEN [buffer |-> <<>>, sends |-> <<Msg(Join(buf), FALSE)>>]
    ELSE [buffer |-> <<>>, sends |-> <<Msg(Join(Append(buf, token)), TRUE)>>]

BufferedStep(buf, token) ==
    LET b == Append(buf, token) IN
    IF Len(b) = n
    THEN [buffer |-> <<>>, sends |-> <<Msg(Join(b), TRUE)>>]
    ELSE [buffer |-> b, sends |-> <<>>]

\* after the buffered loop of OpenAI and Bedrock: `if buffer:` final flush
BufferedEnd(buf) ==
    IF buf # <<>> THEN <<Msg(Join(buf), FALSE)>> ELSE <<>>

\* the explicit closing send of AnthropicBedrock, Anthropic and Gemini
Terminator == Msg(<<>>, FALSE)

\* the sends of one Gemini chunk: chunk.text once per part
GeminiSends(chunk) == [i \in 1..Len(chunk) |-> Msg(ChunkText(chunk), TRUE)]

\* body of one loop iteration, per provider branch
OnChunk(p, m, buf, chunk) ==
    CASE p \in {"OpenAI", "Groq"} -> BufferedStep(buf, OrEmpty(chunk))
      [] p = "AnthropicBedrock" ->
            [buffer |-> buf,
             sends |-> IF Truthy(chunk) THEN <<Msg(chunk, TRUE)>> ELSE <<>>]
      [] p = "Anthropic" -> [buffer |-> buf, sends |-> <<Msg(chunk, TRUE)>>]
      [] p = "Gemini" -> [buffer |-> buf, sends |-> GeminiSends(chunk)]
      [] p = "Bedrock" /\ m = "ai21" ->
            [buffer |-> buf, sends |-> <<Msg(extract_token(m, chunk), TRUE)>>]
      [] p = "Bedrock" -> BufferedStep(buf, extract_token(m, chunk))

\* what the branch sends once its loop is exhausted
OnEnd(p, m, buf) ==
    CASE p = "OpenAI" -> BufferedEnd(buf)
      [] p \in {"AnthropicBedrock", "Anthropic", "Gemini"} -> <<Terminator>>
      [] p = "Groq" -> <<>>
      [] p = "Bedrock" /\ m = "ai21" -> <<>>
      [] p = "Bedrock" -> BufferedEnd(buf)

-----------------------------------------------------------------------------
(* The dispatch _prompt, one step per await.                               *)

InitDispatch ==
    /\ provider \in Providers
    /\ model \in IF provider = "Bedrock" THEN BedrockModels ELSE {"any"}
    /\ chunks \in ChunkSeqs(provider, model)
    /\ errAt \in IF provider \in KnownProviders /\ model # "other"
                 THEN {NoError} \cup {{k} : k \in 0..Len(chunks)}
                 ELSE {NoError}
    /\ pc = "Idle"
    /\ idx = 0
    /\ buffer = <<>>
    /\ sink = <<>>
    /\ log = <<>>
    /\ sendFailed = [failed |-> FALSE]

\* entry of _prompt with a provider the if/elif chain knows: the branch
\* builds its request and awaits the upstream call
PromptStart ==
    /\ pc = "Idle"
    /\ provider \in KnownProviders
    /\ ~(provider = "Bedrock" /\ model \notin BedrockFamilies)
    /\ pc' = "Streaming"
    /\ UNCHANGED <<provider, model, chunks, errAt, hangAt, sendFailed, idx, buffer,
                   sink, log>>
    /\ UNCHANGED exceptDispatch

\* the else branch: the provider name matches no branch
PromptUnknownProvider ==
    /\ pc = "Idle"
    /\ provider \notin KnownProviders
    /\ log' = Append(log, "Unknown provider")
    /\ pc' = "Completed"
    /\ UNCHANGED <<provider, model, chunks, errAt, hangAt, sendFailed, idx, buffer, sink>>
    /\ UNCHANGED exceptDispatch

\* Bedrock with a model prefix generate_request does not know:
\* native_request is unbound, the error is caught by the except clause
PromptUnknownModel ==
    /\ pc = "Idle"
    /\ provider = "Bedrock" /\ model \notin BedrockFamilies
    /\ log' = Append(log, "error in _prompt")
    /\ pc' = "Failed"
    /\ UNCHANGED <<provider, model, chunks, errAt, hangAt, sendFailed, idx, buffer, sink>>
    /\ UNCHANGED exceptDispatch

\* the upstream yields its next chunk; the loop body runs and sends
PromptChunk ==
    /\ pc = "Streaming"
    /\ idx < Len(chunks)
    /\ idx \notin errAt
    /\ idx \notin hangAt
    /\ LET r == OnChunk(provider, model, buffer, chunks[idx + 1]) IN
         /\ buffer' = r.buffer
         /\ sink' = sink \o r.sends
    /\ idx' = idx + 1
    /\ UNCHANGED <<provider, model, chunks, errAt, hangAt, sendFailed, pc, log>>
    /\ UNCHANGED exceptDispatch

\* PromptEnd that stays in the loop after the code after the loop has run
PromptEndStaysOpen ==
    /\ pc = "Streaming"
    /\ idx = Len(chunks)
    /\ idx \notin errAt
    /\ idx \notin hangAt
    /\ Len(sink) <= MaxChunks
    /\ sink' = sink \o OnEnd(provider, model, buffer)
    /\ UNCHANGED <<provider, model, chunks, errAt, hangAt, sendFailed, pc, idx, buffer, log>>
    /\ UNCHANGED exceptDispatch

\* the upstream is exhausted; the code after the loop runs and _prompt returns
PromptEnd ==
    /\ pc = "Streaming"
    /\ idx = Len(chunks)
    /\ idx \notin errAt
    /\ idx \notin hangAt
    /\ sink' = sink \o OnEnd(provider, model, buffer)
    /\ pc' = "Completed"
    /\ UNCHANGED <<provider, model, chunks, errAt, hangAt, sendFailed, idx, buffer, log>>
    /\ UNCHANGED exceptDispatch

\* the upstream call or the next pull raises; `except Exception` logs it
PromptError ==
    /\ pc = "Streaming"
    /\ idx \in errAt
    /\ idx \notin hangAt
    /\ log' = Append(log, "error in _prompt")
    /\ pc' = "Failed"
    /\ UNCHANGED <<provider, model, chunks, errAt, hangAt, sendFailed, idx, buffer, sink>>
    /\ UNCHANGED exceptDispatch

\* an except clause that swallowed the error inside the loop
ExceptResumes(position) == position

\* `except Exception` encloses the whole branch chain: an exception raised
\* by an await inside a loop leaves the loop, is logged, and _prompt returns
ExceptReturns(position) == "Failed"

\* the upstream yields its next chunk and a send of the loop body raises
\* (the caller has gone): the sends before it were made, this one was
\* attempted, and the except clause logs the error.  The locals are dead
\* once the exception has left the loop; buffer is left as the iteration
\* found it.
PromptChunkSendRaises ==
    /\ pc = "Streaming"
    /\ idx < Len(chunks)
    /\ idx \notin errAt
    /\ idx \notin hangAt
    /\ \E j \in 1..Len(OnChunk(provider, model, buffer, chunks[idx + 1]).sends) :
        /\ sink' = sink \o SubSeq(OnChunk(provider, model, buffer,
                                          chunks[idx + 1]).sends, 1, j)
        /\ sendFailed' = [failed |-> TRUE, sends |-> Len(sink) + j,
                          pulls |-> idx + 1]
    /\ idx' = idx + 1
    /\ log' = Append(log, "error in _prompt")
    /\ pc' = ExceptReturns(pc)
    /\ UNCHANGED <<provider, model, chunks, errAt, hangAt, buffer>>
    /\ UNCHANGED exceptDispatch

\* the upstream is exhausted and a send of the code after the loop raises
PromptEndSendRaises ==
    /\ pc = "Streaming"
    /\ idx = Len(chunks)
    /\ idx \notin errAt
    /\ idx \notin hangAt
    /\ \E j \in 1..Len(OnEnd(provider, model, buffer)) :
        /\ sink' = sink \o SubSeq(OnEnd(provider, model, buffer), 1, j)
        /\ sendFailed' = [failed |-> TRUE, sends |-> Len(sink) + j,
                          pulls |-> idx]
    /\ log' = Append(log, "error in _prompt")
    /\ pc' = ExceptReturns(pc)
    /\ UNCHANGED <<provider, model, chunks, errAt, hangAt, idx, buffer>>
    /\ UNCHANGED exceptDispatch

-----------------------------------------------------------------------------
(* Admission: base_blacklist and the four blacklist_* entry points.        *)
(*                                                                         *)
(* The cortext package sets the stake thresholds and the request period;   *)
(* the model keeps their order (the liveness threshold is the lightest)    *)
(* with small values.  MAX_REQUESTS and ALLOW_NON_REGISTERED are chosen at *)
(* start and never change.                                                 *)

MaxLimit == 2       \* largest MAX_REQUESTS

ISALIVE_BLACKLIST_STAKE == 1
PROMPT_BLACKLIST_STAKE == 2
IMAGE_BLACKLIST_STAKE == 2
EMBEDDING_BLACKLIST_STAKE == 2

MIN_REQUEST_PERIOD == 1

time_window == MIN_REQUEST_PERIOD * 60

Hotkeys == {"hk1", "hk2"}

Stakes == 0..PROMPT_BLACKLIST_STAKE

\* the readings of time.time(): an instant, the instant one window later
\* (the boundary of the comparison) and one beyond it; any of them at any
\* call, the wall clock is not monotonic
Times == {0, time_window, 2 * time_window}

\* a dict as a function on its keys
\* Put that stores the value under every key
PutUnderEveryKey(dict, key, value) ==
    [k \in DOMAIN dict \cup {key} |-> value]

Put(dict, key, value) ==
    [k \in DOMAIN dict \cup {key} |-> IF k = key THEN value ELSE dict[k]]

\* dict.get(key) with the empty deque for a missing key
Window(dict, key) == IF key \in DOMAIN dict THEN dict[key] ELSE <<>>

RECURSIVE Prune(_, _)

\* Prune with the subtraction the wrong way round
PruneWrongSign(deque, current_time) ==
    IF deque # <<>> /\ Head(deque) - current_time > time_window
    THEN Prune(Tail(deque), current_time)
    ELSE deque

\* the while loop: popleft while the oldest entry lies outside the window
Prune(deque, current_time) ==
    IF deque # <<>> /\ current_time - Head(deque) > time_window
    THEN Prune(Tail(deque), current_time)
    ELSE deque

\* LowStake off by one
LowStakeOffByOne(stake, blacklist_amt) == stake + 1 < blacklist_amt

\* the stake test
LowStake(stake, blacklist_amt) == stake < blacklist_amt

\* OverLimit with > for >=
OverLimitStrict(deque) == Len(deque) > MAX_REQUESTS

\* OverLimit that never finds the window full
OverLimitIgnored(deque) == FALSE

\* the frequency test
OverLimit(deque) == Len(deque) >= MAX_REQUESTS

\* NonRegistered with the policy flag read the wrong way round
NonRegisteredPolicyFlipped(uid_is_None) ==
    uid_is_None /\ ALLOW_NON_REGISTERED = TRUE

\* the registration test: no axon of the metagraph carries the hotkey and
\* the deployment does not allow non registered callers
NonRegistered(uid_is_None) ==
    uid_is_None /\ ALLOW_NON_REGISTERED = FALSE

\* Record without the append
RecordNothing(deque, current_time) == deque

\* recording the admitted request: append(current_time)
Record(deque, current_time) == Append(deque, current_time)

\* the reason strings, by the values they are formatted from (the synapse
\* type in three of them is left out: it is the caller's kind, nothing else)
ReasonNonRegistered(hotkey) == [kind |-> "non registered", hotkey |-> hotkey]

ReasonLowStake(hotkey, stake, blacklist_amt) ==
    [kind |-> "low stake", hotkey |-> hotkey, stake |-> stake,
     blacklist_amt |-> blacklist_amt]

ReasonFrequency(hotkey, requests) ==
    [kind |-> "frequency", hotkey |-> hotkey, requests |-> requests,
     minutes |-> MIN_REQUEST_PERIOD, limit |-> MAX_REQUESTS]

ReasonAccepting(hotkey) == [kind |-> "accepting", hotkey |-> hotkey]

\* base_blacklist that creates and prunes the caller's window before it
\* looks at the registration and the stake
base_blacklist_window_first(hotkey, synapse_type, blacklist_amt, current_time) ==
    LET uid_is_None == \A _axon \in DOMAIN metagraph : _axon # hotkey
        pruned == Prune(Window(request_timestamps, hotkey), current_time)
        touched == Put(request_timestamps, hotkey, pruned)
    IN
    IF NonRegistered(uid_is_None)
    THEN [ret |-> <<TRUE, ReasonNonRegistered(hotkey)>>, timestamps |-> touched]
    ELSE IF hotkey \notin DOMAIN metagraph
    THEN [ret |-> None, timestamps |-> touched]
    ELSE IF LowStake(metagraph[hotkey], blacklist_amt)
    THEN [ret |-> <<TRUE, ReasonLowStake(hotkey, metagraph[hotkey], blacklist_amt)>>,
          timestamps |-> touched]
    ELSE IF OverLimit(pruned)
    THEN [ret |-> <<TRUE, ReasonFrequency(hotkey, Len(pruned))>>,
          timestamps |-> touched]
    ELSE [ret |-> <<FALSE, ReasonAccepting(hotkey)>>,
          timestamps |-> Put(request_timestamps, hotkey,
                             Record(pruned, current_time))]

\* base_blacklist: the value it returns (None after a caught exception) and
\* the request_timestamps it leaves
base_blacklist(hotkey, synapse_type, blacklist_amt, current_time) ==
    LET uid_is_None == \A _axon \in DOMAIN metagraph : _axon # hotkey
        created == IF hotkey \in DOMAIN request_timestamps
                   THEN request_timestamps
                   ELSE Put(request_timestamps, hotkey, <<>>)
        pruned == Prune(created[hotkey], current_time)
    IN
    IF NonRegistered(uid_is_None)
    THEN [ret |-> <<TRUE, ReasonNonRegistered(hotkey)>>,
          timestamps |-> request_timestamps]
    ELSE IF hotkey \notin DOMAIN metagraph
    THEN \* metagraph.hotkeys.index(hotkey) raises ValueError, caught and logged
         [ret |-> None, timestamps |-> request_timestamps]
    ELSE IF LowStake(metagraph[hotkey], blacklist_amt)
    THEN [ret |-> <<TRUE, ReasonLowStake(hotkey, metagraph[hotkey], blacklist_amt)>>,
          timestamps |-> request_timestamps]
    ELSE IF OverLimit(pruned)
    THEN [ret |-> <<TRUE, ReasonFrequency(hotkey, Len(pruned))>>,
          timestamps |-> Put(created, hotkey, pruned)]
    ELSE [ret |-> <<FALSE, ReasonAccepting(hotkey)>>,
          timestamps |-> Put(created, hotkey, Record(pruned, current_time))]

\* one blacklist_* call: base_blacklist, then blacklist[1] is logged, which
\* raises TypeError when base_blacklist returned None.  The result is the
\* request_timestamps the call leaves and the record of the call.
Blacklist(hotkey, synapse_type, blacklist_amt, current_time) ==
    LET r == base_blacklist(hotkey, synapse_type, blacklist_amt, current_time) IN
    [timestamps |-> r.timestamps,
     last |-> [called |-> TRUE,
               hotkey |-> hotkey,
               blacklist_amt |-> blacklist_amt,
               current_time |-> current_time,
               before |-> Window(request_timestamps, hotkey),
               raised |-> (r.ret = None),
               blacklist |-> r.ret]]

blacklist_prompt ==
    \E hotkey \in Hotkeys, t \in Times :
        LET call == Blacklist(hotkey, "StreamPrompting", PROMPT_BLACKLIST_STAKE, t) IN
        /\ request_timestamps' = call.timestamps
        /\ last' = call.last
        /\ UNCHANGED <<metagraph, ALLOW_NON_REGISTERED, MAX_REQUESTS, admitted>>
        /\ UNCHANGED exceptAdmit

blacklist_is_alive ==
    \E hotkey \in Hotkeys, t \in Times :
        LET call == Blacklist(hotkey, "IsAlive", ISALIVE_BLACKLIST_STAKE, t) IN
        /\ request_timestamps' = call.timestamps
        /\ last' = call.last
        /\ UNCHANGED <<metagraph, ALLOW_NON_REGISTERED, MAX_REQUESTS, admitted>>
        /\ UNCHANGED exceptAdmit

blacklist_images ==
    \E hotkey \in Hotkeys, t \in Times :
        LET call == Blacklist(hotkey, "ImageResponse", IMAGE_BLACKLIST_STAKE, t) IN
        /\ request_timestamps' = call.timestamps
        /\ last' = call.last
        /\ UNCHANGED <<metagraph, ALLOW_NON_REGISTERED, MAX_REQUESTS, admitted>>
        /\ UNCHANGED exceptAdmit

blacklist_embeddings ==
    \E hotkey \in Hotkeys, t \in Times :
        LET call == Blacklist(hotkey, "Embeddings", EMBEDDING_BLACKLIST_STAKE, t) IN
        /\ request_timestamps' = call.timestamps
        /\ last' = call.last
        /\ UNCHANGED <<metagraph, ALLOW_NON_REGISTERED, MAX_REQUESTS, admitted>>
        /\ UNCHANGED exceptAdmit

\* self.metagraph is read once at start; request_timestamps starts empty
InitAdmit ==
    /\ metagraph \in UNION {[reg -> Stakes] : reg \in SUBSET Hotkeys}
    /\ ALLOW_NON_REGISTERED \in BOOLEAN
    /\ MAX_REQUESTS \in 0..MaxLimit
    /\ request_timestamps = <<>>
    /\ last = [called |-> FALSE]
    /\ admitted = <<>>

\* dispatch state when only admission is observed
IdleDispatch ==
    /\ provider = "OpenAI"
    /\ model = "any"
    /\ chunks = <<>>
    /\ errAt = NoError
    /\ hangAt = NoHang
    /\ pc = "Idle"
    /\ idx = 0
    /\ buffer = <<>>
    /\ sink = <<>>
    /\ log = <<>>
    /\ sendFailed = [failed |-> FALSE]

NextAdmit ==
    \/ blacklist_prompt
    \/ blacklist_is_alive
    \/ blacklist_images
    \/ blacklist_embeddings

InitAdmitOnly == InitAdmit /\ IdleDispatch /\ IdleEmbed /\ IdleMsg /\ IdleOther

SpecAdmit == InitAdmitOnly /\ [][NextAdmit]_vars

-----------------------------------------------------------------------------
(* Simultaneous requests.  The blacklist_* functions are plain `def`s with *)
(* no await: on the axon's event loop each call runs from its first line   *)
(* to its return before another call starts, so simultaneous requests are  *)
(* calls in any order whose clock readings never decrease.  self.lock is   *)
(* created in __init__ and acquired nowhere.                               *)

\* the readings time.time() can give after the latest call's reading
Clock == IF last.called THEN {t \in Times : t >= last.current_time} ELSE Times

\* the calls the axon goes on to serve: blacklist[0] is False
Served(call) ==
    IF ~call.raised /\ call.blacklist[1] = FALSE
    THEN Put(admitted, call.hotkey,
             Append(Window(admitted, call.hotkey), call.current_time))
    ELSE admitted

loop_blacklist_prompt ==
    \E hotkey \in Hotkeys, t \in Clock :
        LET call == Blacklist(hotkey, "StreamPrompting", PROMPT_BLACKLIST_STAKE, t) IN
        /\ request_timestamps' = call.timestamps
        /\ last' = call.last
        /\ admitted' = Served(call.last)
        /\ UNCHANGED <<metagraph, ALLOW_NON_REGISTERED, MAX_REQUESTS>>
        /\ UNCHANGED exceptAdmit

loop_blacklist_is_alive ==
    \E hotkey \in Hotkeys, t \in Clock :
        LET call == Blacklist(hotkey, "IsAlive", ISALIVE_BLACKLIST_STAKE, t) IN
        /\ request_timestamps' = call.timestamps
        /\ last' = call.last
        /\ admitted' = Served(call.last)
        /\ UNCHANGED <<metagraph, ALLOW_NON_REGISTERED, MAX_REQUESTS>>
        /\ UNCHANGED exceptAdmit

loop_blacklist_images ==
    \E hotkey \in Hotkeys, t \in Clock :
        LET call == Blacklist(hotkey, "ImageResponse", IMAGE_BLACKLIST_STAKE, t) IN
        /\ request_timestamps' = call.timestamps
        /\ last' = call.last
        /\ admitted' = Served(call.last)
        /\ UNCHANGED <<metagraph, ALLOW_NON_REGISTERED, MAX_REQUESTS>>
        /\ UNCHANGED exceptAdmit

loop_blacklist_embeddings ==
    \E hotkey \in Hotkeys, t \in Clock :
        LET call == Blacklist(hotkey, "Embeddings", EMBEDDING_BLACKLIST_STAKE, t) IN
        /\ request_timestamps' = call.timestamps
        /\ last' = call.last
        /\ admitted' = Served(call.last)
        /\ UNCHANGED <<metagraph, ALLOW_NON_REGISTERED, MAX_REQUESTS>>
        /\ UNCHANGED exceptAdmit

NextLoop ==
    \/ loop_blacklist_prompt
    \/ loop_blacklist_is_alive
    \/ loop_blacklist_images
    \/ loop_blacklist_embeddings

InitLoop == InitAdmit /\ IdleDispatch /\ IdleEmbed /\ IdleMsg /\ IdleOther

SpecLoop == InitLoop /\ [][NextLoop]_vars

-----------------------------------------------------------------------------
(* Admission state when only a dispatch is observed.                       *)

IdleAdmit ==
    /\ metagraph = <<>>
    /\ ALLOW_NON_REGISTERED = FALSE
    /\ MAX_REQUESTS = 1
    /\ request_timestamps = <<>>
    /\ last = [called |-> FALSE]
    /\ admitted = <<>>

NextDispatch ==
    \/ PromptStart
    \/ PromptUnknownProvider
    \/ PromptUnknownModel
    \/ PromptChunk
    \/ PromptEnd
    \/ PromptError
    \/ PromptChunkSendRaises
    \/ PromptEndSendRaises

InitDispatchOnly == InitDispatch /\ hangAt = NoHang /\ IdleAdmit /\ IdleEmbed /\ IdleMsg /\ IdleOther

SpecDispatch == InitDispatchOnly /\ [][NextDispatch]_vars

-----------------------------------------------------------------------------
(* A dispatch whose upstream may hang: at one pull the provider neither    *)
(* yields a chunk, nor ends, nor raises.  The awaits of _prompt carry no   *)
(* timeout, so the code has no step of its own for that moment.            *)

\* the longest upstream answer of a dispatch whose upstream may hang
HangChunks == 2

InitHang ==
    /\ InitDispatch
    /\ Len(chunks) <= HangChunks
    /\ hangAt \in {NoHang} \cup {{k} : k \in 0..Len(chunks)}
    /\ IdleAdmit
    /\ IdleEmbed
    /\ IdleMsg
    /\ IdleOther

SpecHang == InitHang /\ [][NextDispatch]_vars

-----------------------------------------------------------------------------
(* The embeddings request: embeddings(synapse) and its inner               *)
(* get_embeddings_in_batch, one step per await and one per task outcome.   *)

MaxTexts == 5
MaxBatchSize == 2

Min(a, b) == IF a <= b THEN a ELSE b

\* texts that str.strip() empties
Blank == {"", " "}

\* text.strip(), as far as its truth value goes
strip(text) == IF text \in Blank THEN "" ELSE text

\* the texts of a request: each one is empty, whitespace only, or a text of
\* its own (named by its position)
TextInputs ==
    UNION {{[i \in 1..len |-> IF kind[i] = "text" THEN ToString(i) ELSE kind[i]] :
              kind \in [1..len -> Blank \cup {"text"}]} : len \in 0..MaxTexts}

\* batches = [texts[i:i + batch_size] for i in range(0, len(texts), batch_size)]
Batches(txts, size) ==
    [k \in 1..((Len(txts) + size - 1) \div size) |->
        SubSeq(txts, (k - 1) * size + 1, Min(k * size, Len(txts)))]

\* filtered_batch that keeps every text
FilteredBatchKeepsAll(batch) == batch

\* filtered_batch = [text for text in batch if text.strip()]
filtered_batch(batch) == SelectSeq(batch, LAMBDA text : strip(text) # "")

\* CreatedTasks with a task for every batch, the empty ones included
CreatedTasksForEveryBatch(txts, size) ==
    [k \in DOMAIN Batches(txts, size) |-> filtered_batch(Batches(txts, size)[k])]

\* the for loop over batches: the input of each task created
CreatedTasks(txts, size) ==
    LET filtered == [k \in DOMAIN Batches(txts, size) |->
                        filtered_batch(Batches(txts, size)[k])]
    IN SelectSeq(filtered, LAMBDA input : input # <<>>)

\* the batches the for loop skips, each logged
SkippedLogs(txts, size) ==
    LET filtered == [k \in DOMAIN Batches(txts, size) |->
                        filtered_batch(Batches(txts, size)[k])]
    IN [k \in 1..Len(SelectSeq(filtered, LAMBDA input : input = <<>>)) |->
            "Skipped an empty batch."]

\* the vector the upstream computes for a text
Vector(text) == <<"embedding", text>>

\* what openai_client.embeddings.create returns: one item per input, in order
Response(input) == [i \in 1..Len(input) |-> [embedding |-> Vector(input[i])]]

Pending == [state |-> "pending", data |-> <<>>]
Raised == [state |-> "exception", data |-> <<>>]
Result(input) == [state |-> "result", data |-> Response(input)]

RECURSIVE all_embeddings(_)
RECURSIVE AllEmbeddingsUntilFailure(_)
\* all_embeddings that stops at the first failed batch
AllEmbeddingsUntilFailure(res) ==
    IF res = <<>> \/ Head(res).state = "exception" THEN <<>>
    ELSE [i \in 1..Len(Head(res).data) |-> Head(res).data[i].embedding]
         \o AllEmbeddingsUntilFailure(Tail(res))

\* the for loop over results: all_embeddings.extend(batch_embeddings) for
\* every result that is no exception
all_embeddings(res) ==
    IF res = <<>> THEN <<>>
    ELSE (IF Head(res).state = "exception" THEN <<>>
          ELSE [i \in 1..Len(Head(res).data) |-> Head(res).data[i].embedding])
         \o all_embeddings(Tail(res))

\* the error logged for every failed result, in order
ErrorLogs(res) ==
    [k \in 1..Len(SelectSeq(res, LAMBDA r : r.state = "exception")) |->
        "Error in processing batch"]

InitEmbed ==
    /\ texts \in TextInputs
    /\ batch_size \in 1..MaxBatchSize
    /\ epc = "Idle"
    /\ tasks = <<>>
    /\ results = <<>>
    /\ synapse_embeddings = [set |-> FALSE, value |-> <<>>]
    /\ returned = "pending"
    /\ elog = <<>>

\* entry of embeddings up to `await asyncio.gather`: the batches are cut,
\* filtered, and one task is created for each non-empty filtered batch
embeddings_start ==
    /\ epc = "Idle"
    /\ tasks' = CreatedTasks(texts, batch_size)
    /\ results' = [k \in 1..Len(CreatedTasks(texts, batch_size)) |-> Pending]
    /\ elog' = elog \o SkippedLogs(texts, batch_size)
    /\ epc' = "Gathering"
    /\ UNCHANGED <<texts, batch_size, synapse_embeddings, returned>>
    /\ UNCHANGED exceptEmbed

\* a task's upstream call returns
create_returns ==
    /\ epc = "Gathering"
    /\ \E k \in DOMAIN results :
        /\ results[k] = Pending
        /\ results' = [results EXCEPT ![k] = Result(tasks[k])]
    /\ UNCHANGED <<texts, batch_size, epc, tasks, synapse_embeddings, returned, elog>>
    /\ UNCHANGED exceptEmbed

\* a task's upstream call raises; gather(return_exceptions=True) keeps the
\* exception as that task's result
create_raises ==
    /\ epc = "Gathering"
    /\ \E k \in DOMAIN results :
        /\ results[k] = Pending
        /\ results' = [results EXCEPT ![k] = Raised]
    /\ UNCHANGED <<texts, batch_size, epc, tasks, synapse_embeddings, returned, elog>>
    /\ UNCHANGED exceptEmbed

\* gather returns: the results are concatenated, synapse.embeddings is
\* set, and the logging of synapse.embeddings[0][:10] raises IndexError on
\* an empty list, which the except clause logs before embeddings returns None
embeddings_finish ==
    /\ epc = "Gathering"
    /\ \A k \in DOMAIN results : results[k] # Pending
    /\ synapse_embeddings' = [set |-> TRUE, value |-> all_embeddings(results)]
    /\ IF all_embeddings(results) = <<>>
       THEN /\ returned' = "None"
            /\ elog' = elog \o ErrorLogs(results)
                            \o <<"Exception in embeddings function">>
       ELSE /\ returned' = "synapse"
            /\ elog' = elog \o ErrorLogs(results) \o <<"synapse response is">>
    /\ epc' = "Returned"
    /\ UNCHANGED <<texts, batch_size, tasks, results>>
    /\ UNCHANGED exceptEmbed

NextEmbed ==
    \/ embeddings_start
    \/ create_returns
    \/ create_raises
    \/ embeddings_finish

InitEmbedOnly == InitEmbed /\ IdleDispatch /\ IdleAdmit /\ IdleMsg /\ IdleOther

SpecEmbed == InitEmbedOnly /\ [][NextEmbed]_vars

-----------------------------------------------------------------------------
(* generate_messages_to_claude(messages): the translation of the message   *)
(* list for the Anthropic and the Bedrock anthropic requests, one step per *)
(* iteration of its for loop.                                              *)

MaxMessages == 3

Roles == {"system", "user"}

\* message.get("image"): None or a url
Images == {None, <<"u">>}

\* the messages of a request: a role, a content and an optional image url
Messages == [role : Roles, content : Texts, image : Images]

\* base64.b64encode(httpx.get(image_url).content).decode("utf-8")
image_data(image_url) == <<"base64", <<"content at", image_url>>>>

\* the blocks of message_to_append["content"]: the image first, then the text
Content(message) ==
    (IF Truthy(message.image)
     THEN <<[type |-> "image",
             source |-> [type |-> "base64", media_type |-> "image/jpeg",
                         data |-> image_data(message.image)]]>>
     ELSE <<>>)
    \o (IF Truthy(message.content)
        THEN <<[type |-> "text", text |-> message.content]>>
        ELSE <<>>)

message_to_append(message) ==
    [role |-> message.role, content |-> Content(message)]

\* the system branch keeping the first system message it met
SystemBranchKeepsFirst(prompt, message) ==
    IF prompt = None THEN message.content ELSE prompt

\* the system branch of the loop: system_prompt = message["content"]
SystemBranch(prompt, message) == message.content

InitMsg ==
    /\ messages \in SeqsUpTo(Messages, MaxMessages)
    /\ mpc = "Idle"
    /\ midx = 0
    /\ system_prompt = None
    /\ filtered_messages = <<>>

\* entry: system_prompt = None, filtered_messages = []
generate_messages_to_claude ==
    /\ mpc = "Idle"
    /\ system_prompt' = None
    /\ filtered_messages' = <<>>
    /\ mpc' = "Loop"
    /\ UNCHANGED <<messages, midx>>
    /\ UNCHANGED exceptMsg

\* an iteration on a message whose role is "system"
for_system_message ==
    /\ mpc = "Loop"
    /\ midx < Len(messages)
    /\ messages[midx + 1].role = "system"
    /\ system_prompt' = SystemBranch(system_prompt, messages[midx + 1])
    /\ midx' = midx + 1
    /\ UNCHANGED <<messages, mpc, filtered_messages>>
    /\ UNCHANGED exceptMsg

\* an iteration on a message of any other role
for_other_message ==
    /\ mpc = "Loop"
    /\ midx < Len(messages)
    /\ messages[midx + 1].role # "system"
    /\ filtered_messages' =
           Append(filtered_messages, message_to_append(messages[midx + 1]))
    /\ midx' = midx + 1
    /\ UNCHANGED <<messages, mpc, system_prompt>>
    /\ UNCHANGED exceptMsg

\* return filtered_messages, system_prompt
generate_messages_return ==
    /\ mpc = "Loop"
    /\ midx = Len(messages)
    /\ mpc' = "Returned"
    /\ UNCHANGED <<messages, midx, system_prompt, filtered_messages>>
    /\ UNCHANGED exceptMsg

NextMsg ==
    \/ generate_messages_to_claude
    \/ for_system_message
    \/ for_other_message
    \/ generate_messages_return

InitMsgOnly == InitMsg /\ IdleDispatch /\ IdleAdmit /\ IdleEmbed /\ IdleOther

SpecMsg == InitMsgOnly /\ [][NextMsg]_vars

-----------------------------------------------------------------------------
(* Two dispatches in flight.  Each call of prompt() makes its own _prompt  *)
(* closure with its own synapse, send and locals; the coroutines share the *)
(* event loop and interleave at their awaits.  The first dispatch is the   *)
(* one of the dispatch section; the second is held in `other` and is an    *)
(* OpenAI dispatch whose upstream may raise at its first or second pull.   *)

PairChunks == 2

InitOther ==
    \E e \in {NoError, {0}, {1}} :
        other = [provider |-> "OpenAI", model |-> "any", chunks |-> <<<<"a">>>>,
                 errAt |-> e, pc |-> "Idle", idx |-> 0, buffer |-> <<>>,
                 sink |-> <<>>, log |-> <<>>]

\* the second dispatch enters its provider branch
OtherStart ==
    /\ other.pc = "Idle"
    /\ other' = [other EXCEPT !.pc = "Streaming"]
    /\ UNCHANGED <<dispatchVars, admitVars, embedVars, msgVars>>

\* the second dispatch pulls a chunk and runs its loop body
OtherChunk ==
    /\ other.pc = "Streaming"
    /\ other.idx < Len(other.chunks)
    /\ other.idx \notin other.errAt
    /\ LET r == OnChunk(other.provider, other.model, other.buffer,
                        other.chunks[other.idx + 1]) IN
         other' = [other EXCEPT !.buffer = r.buffer,
                                !.sink = other.sink \o r.sends,
                                !.idx = other.idx + 1]
    /\ UNCHANGED <<dispatchVars, admitVars, embedVars, msgVars>>

\* the second dispatch finds its upstream exhausted and returns
OtherEnd ==
    /\ other.pc = "Streaming"
    /\ other.idx = Len(other.chunks)
    /\ other.idx \notin other.errAt
    /\ other' = [other EXCEPT
                    !.sink = other.sink \o OnEnd(other.provider, other.model,
                                                 other.buffer),
                    !.pc = "Completed"]
    /\ UNCHANGED <<dispatchVars, admitVars, embedVars, msgVars>>

\* OtherError whose exception ends the first dispatch as well
OtherErrorEndsBoth ==
    /\ other.pc = "Streaming"
    /\ other.idx \in other.errAt
    /\ other' = [other EXCEPT !.log = Append(other.log, "error in _prompt"),
                              !.pc = "Failed"]
    /\ pc' = "Failed"
    /\ UNCHANGED <<provider, model, chunks, errAt, hangAt, sendFailed, idx, buffer,
                   sink, log>>
    /\ UNCHANGED <<admitVars, embedVars, msgVars>>

\* the upstream of the second dispatch raises; its own except clause logs
\* the error and its _prompt returns
OtherError ==
    /\ other.pc = "Streaming"
    /\ other.idx \in other.errAt
    /\ other' = [other EXCEPT !.log = Append(other.log, "error in _prompt"),
                              !.pc = "Failed"]
    /\ UNCHANGED <<dispatchVars, admitVars, embedVars, msgVars>>

NextPair ==
    \/ PromptStart
    \/ PromptUnknownProvider
    \/ PromptUnknownModel
    \/ PromptChunk
    \/ PromptEnd
    \/ PromptError
    \/ PromptChunkSendRaises
    \/ PromptEndSendRaises
    \/ OtherStart
    \/ OtherChunk
    \/ OtherEnd
    \/ OtherError

InitPair ==
    /\ InitDispatch
    /\ hangAt = NoHang
    /\ Len(chunks) <= PairChunks
    /\ InitOther
    /\ IdleAdmit
    /\ IdleEmbed
    /\ IdleMsg

SpecPair == InitPair /\ [][NextPair]_vars

-----------------------------------------------------------------------------
(* Claims about the streaming dispatch, checked under SpecDispatch.        *)

\* the dispatch has returned, normally or through the except clause
Returned == pc \in {"Completed", "Failed"}

\* the branches that run the token buffer
Buffered == provider \in {"OpenAI", "Groq"}
            \/ (provider = "Bedrock" /\ model \in BedrockFamilies \ {"ai21"})

\* the text delta a chunk of the upstream carries
Delta(chunk) ==
    CASE provider = "Gemini" -> Join(chunk)
      [] provider = "Bedrock" /\ model = "anthropic" -> extract_token(model, chunk)
      [] OTHER -> OrEmpty(chunk)

Deltas(k) == [i \in 1..k |-> Delta(chunks[i])]

Bodies(msgs) == [i \in 1..Len(msgs) |-> msgs[i].body]

\* C1: when a dispatch has returned, whatever the provider branch and the
\* outcome (no send having raised), the sink has received at least one message, its last message has
\* more_body = FALSE and no earlier one has.
C1_AlwaysTerminated ==
    (Returned /\ provider \in KnownProviders /\ ~sendFailed.failed) =>
        /\ sink # <<>>
        /\ Last(sink).more_body = FALSE
        /\ \A i \in 1..(Len(sink) - 1) : sink[i].more_body = TRUE

\* C2: when the upstream raised after k chunks, the sink holds the sends of
\* those k chunks, all with more_body = TRUE, and then one closing message
\* with an empty body and more_body = FALSE.
C2_ErrorStillTerminates ==
    (pc = "Failed" /\ errAt # NoError /\ ~sendFailed.failed) =>
        /\ sink # <<>>
        /\ Last(sink) = Terminator
        /\ \A i \in 1..(Len(sink) - 1) : sink[i].more_body = TRUE
        /\ Join(Bodies(Front(sink))) = Join(Deltas(idx))

\* C3: with flush size 1, a buffered branch whose upstream yields c1..ck
\* (k >= 1) and ends normally has sent exactly k messages with
\* more_body = TRUE carrying c1..ck in order, then one closing message with
\* an empty body and more_body = FALSE.
C3_FlushSizeOneFraming ==
    (pc = "Completed" /\ errAt = NoError /\ Buffered /\ n = 1 /\ Len(chunks) >= 1) =>
        sink = [i \in 1..Len(chunks) |-> Msg(Delta(chunks[i]), TRUE)] \o <<Terminator>>

\* C4: a dispatch whose upstream yields no chunk and ends normally has sent
\* exactly one message, and that message has more_body = FALSE.
C4_ZeroChunksOneTerminator ==
    (pc = "Completed" /\ errAt = NoError /\ provider \in KnownProviders
        /\ chunks = <<>>) =>
        /\ Len(sink) = 1
        /\ sink[1].more_body = FALSE

\* C5: a dispatch with an unknown provider name has sent exactly one
\* message, the closing one with an empty body and more_body = FALSE, and
\* has logged the unknown-provider error.
C5_UnknownProviderOnlyTerminator ==
    (Returned /\ provider \notin KnownProviders) =>
        /\ sink = <<Terminator>>
        /\ \E i \in 1..Len(log) : log[i] = "Unknown provider"

\* C6: when a dispatch has completed without an upstream error, the
\* concatenation of the bodies sent to the sink equals the concatenation of
\* the upstream's text deltas, in every provider branch.
C6_PayloadsAreTheDeltas ==
    (pc = "Completed" /\ errAt = NoError /\ provider \in KnownProviders) =>
        Join(Bodies(sink)) = Join(Deltas(Len(chunks)))

-----------------------------------------------------------------------------
(* Claims about admission, checked under SpecAdmit.  `last` holds the      *)
(* latest call: its caller, threshold and clock reading, the caller's      *)
(* window before the call, and what the call returned.                     *)

\* the latest caller is registered and its stake reaches the threshold
PassedStake ==
    /\ last.hotkey \in DOMAIN metagraph
    /\ metagraph[last.hotkey] >= last.blacklist_amt

\* the latest call returned a decision, and it admits / rejects
Admitted == last.called /\ ~last.raised /\ last.blacklist[1] = FALSE

Rejected == last.called /\ ~last.raised /\ last.blacklist[1] = TRUE

\* the latest caller's window as the call left it
After == Window(request_timestamps, last.hotkey)

\* C7: a call by an identity that passes the registration and stake checks,
\* made while all N timestamps of its window are still inside the window
\* and MAX_REQUESTS <= N, returns blacklisted = TRUE with the frequency
\* reason citing N and MAX_REQUESTS.
C7_FullWindowRejects ==
    (/\ last.called
     /\ PassedStake
     /\ \A i \in 1..Len(last.before) :
            last.current_time - last.before[i] <= time_window
     /\ MAX_REQUESTS <= Len(last.before))
    => /\ Rejected
       /\ last.blacklist[2].kind = "frequency"
       /\ last.blacklist[2].requests = Len(last.before)
       /\ last.blacklist[2].limit = MAX_REQUESTS

\* a call found two timestamps, both inside the window, with a limit of two
C7_Witness ==
    /\ last.called
    /\ PassedStake
    /\ MAX_REQUESTS = 2
    /\ Len(last.before) = 2
    /\ \A i \in 1..2 : last.current_time - last.before[i] <= time_window
    /\ \E i \in 1..2 : last.current_time - last.before[i] = time_window

\* C8: a call by an identity that passes the registration and stake checks,
\* made when every timestamp of its window is older than now minus the
\* window length and MAX_REQUESTS >= 1, admits.
C8_ElapsedWindowAdmits ==
    (/\ last.called
     /\ PassedStake
     /\ MAX_REQUESTS >= 1
     /\ \A i \in 1..Len(last.before) :
            last.current_time - last.before[i] > time_window)
    => Admitted

\* a call found a full window all of whose timestamps had elapsed
C8_Witness ==
    /\ last.called
    /\ PassedStake
    /\ MAX_REQUESTS >= 1
    /\ Len(last.before) = MAX_REQUESTS
    /\ \A i \in 1..Len(last.before) :
            last.current_time - last.before[i] > time_window

\* C9: a call by a registered identity whose stake is below the threshold
\* of the request kind is rejected, whatever its window holds.
C9_LowStakeRejects ==
    (/\ last.called
     /\ last.hotkey \in DOMAIN metagraph
     /\ metagraph[last.hotkey] < last.blacklist_amt)
    => Rejected

\* a call below the threshold found a window that held a timestamp
\* (recorded by an admitted call of a lighter kind)
C9_Witness ==
    /\ last.called
    /\ last.hotkey \in DOMAIN metagraph
    /\ metagraph[last.hotkey] < last.blacklist_amt
    /\ last.before # <<>>

\* C10: an admitting call leaves the caller's window as its pruned window
\* followed by exactly one new timestamp, the call's clock reading; a call
\* that does not admit leaves the old window or the pruned one, with nothing
\* appended.
C10_OneAppendIffAdmitted ==
    last.called =>
        LET kept == Prune(last.before, last.current_time) IN
        IF Admitted
        THEN /\ Len(After) = Len(kept) + 1
             /\ After = kept \o <<last.current_time>>
        ELSE After \in {last.before, kept}

\* a call was admitted that popped one timestamp and kept another
C10_Witness ==
    /\ Admitted
    /\ Len(last.before) = 2
    /\ Len(After) = 2

\* C11: every call of a blacklist_* wrapper returns a decision pair and
\* raises nothing, and a call whose evaluation met an unexpected error (the
\* stake lookup of an identity absent from the metagraph) rejects.
C11_NeverRaisesRejectsOnError ==
    last.called =>
        /\ ~last.raised
        /\ Len(last.blacklist) = 2
        /\ last.blacklist[1] \in BOOLEAN
        /\ (last.hotkey \notin DOMAIN metagraph => Rejected)

\* C12: with non registered callers disallowed, a call by an identity that
\* is not in the metagraph is rejected with the non-registered reason; no
\* stake lookup has failed and no window has been created, pruned or
\* appended to.
C12_NonRegisteredRejectedFirst ==
    (/\ last.called
     /\ last.hotkey \notin DOMAIN metagraph
     /\ ALLOW_NON_REGISTERED = FALSE)
    => /\ Rejected
       /\ last.blacklist[2] = ReasonNonRegistered(last.hotkey)
       /\ last.hotkey \notin DOMAIN request_timestamps

\* a non registered identity called after a registered one had been admitted
C12_Witness ==
    /\ last.called
    /\ last.hotkey \notin DOMAIN metagraph
    /\ ALLOW_NON_REGISTERED = FALSE
    /\ \E hotkey \in DOMAIN request_timestamps :
           request_timestamps[hotkey] # <<>>

\* C13: in every reachable state each identity's window holds at most
\* MAX_REQUESTS timestamps.
C13_WindowBounded ==
    \A hotkey \in DOMAIN request_timestamps :
        Len(request_timestamps[hotkey]) <= MAX_REQUESTS

\* a call was rejected for frequency on a window holding two timestamps, the
\* limit
C13_Witness ==
    /\ Rejected
    /\ last.blacklist[2].kind = "frequency"
    /\ MAX_REQUESTS = 2
    /\ Len(After) = MAX_REQUESTS


-----------------------------------------------------------------------------
(* Claims about simultaneous admission calls, checked under SpecLoop.      *)

\* the timestamps of a sequence that lie in the window ending at `now`
InWindow(timestamps, now) ==
    SelectSeq(timestamps, LAMBDA ts : now - ts >= 0 /\ now - ts <= time_window)

-----------------------------------------------------------------------------
(* Claims about the embeddings request, checked under SpecEmbed.           *)

\* the texts of the request that are neither empty nor whitespace only
Survivors == SelectSeq(texts, LAMBDA text : text \notin Blank)

\* the vectors of task k if its call returned, nothing if it raised
Contribution(k) ==
    IF results[k].state = "result"
    THEN [i \in 1..Len(tasks[k]) |-> Vector(tasks[k][i])]
    ELSE <<>>

\* C15: the inputs sent upstream are the survivors of the whole text list,
\* cut in order into consecutive batches: every batch but the last holds
\* exactly batch_size survivors, the last between 1 and batch_size.
C15_FilterThenPartition ==
    epc # "Idle" =>
        /\ Join(tasks) = Survivors
        /\ \A k \in 1..(Len(tasks) - 1) : Len(tasks[k]) = batch_size
        /\ \A k \in DOMAIN tasks : Len(tasks[k]) \in 1..batch_size

\* C16: when the request has returned, synapse.embeddings is the
\* concatenation, in task order, of the vectors of the tasks whose call
\* returned; a task whose call raised contributes nothing and removes
\* nothing of the others.
C16_FailedBatchLeavesSiblings ==
    epc = "Returned" =>
        /\ synapse_embeddings.set
        /\ synapse_embeddings.value
               = Join([k \in DOMAIN tasks |-> Contribution(k)])

\* the first task's call raised and a later one returned: the request ended
\* with the later one's vectors
C16_Witness ==
    /\ epc = "Returned"
    /\ Len(tasks) >= 3
    /\ results[1].state = "exception"
    /\ results[2].state = "result"
    /\ results[3].state = "exception"
    /\ synapse_embeddings.value # <<>>

\* C17: when every task's call raised, or no text survived, the request
\* returns the synapse with synapse.embeddings set to the empty list.
C17_TotalFailureReturnsEmptyList ==
    (/\ epc = "Returned"
     /\ \A k \in DOMAIN results : results[k].state = "exception")
    => /\ returned = "synapse"
       /\ synapse_embeddings = [set |-> TRUE, value |-> <<>>]

\* C18: when every task's call returned, synapse.embeddings holds one
\* vector for each surviving text, in the order of the survivors in
\* synapse.texts.
C18_OneVectorPerSurvivorInOrder ==
    (/\ epc = "Returned"
     /\ \A k \in DOMAIN results : results[k].state = "result")
    => synapse_embeddings.value
           = [i \in 1..Len(Survivors) |-> Vector(Survivors[i])]

\* every call returned for a request of several batches whose texts had
\* blank ones among the survivors
C18_Witness ==
    /\ epc = "Returned"
    /\ Len(tasks) >= 2
    /\ \A k \in DOMAIN results : results[k].state = "result"
    /\ Len(Survivors) >= 3
    /\ Len(Survivors) < Len(texts)
    /\ strip(texts[2]) = ""


-----------------------------------------------------------------------------
(* Claims about generate_messages_to_claude, checked under SpecMsg.        *)

\* the positions of the system messages of the argument
SystemAt == {i \in DOMAIN messages : messages[i].role = "system"}

FirstSystem == CHOOSE i \in SystemAt : \A j \in SystemAt : i <= j

LastSystem == CHOOSE i \in SystemAt : \A j \in SystemAt : i >= j

\* the argument without the message at position i
Without(i) == SubSeq(messages, 1, i - 1) \o SubSeq(messages, i + 1, Len(messages))

\* C19: the returned system prompt is the content of the first system
\* message, and every later system message is in the returned list as a
\* regular message, at its place among the other messages.
C19_FirstSystemHonoured ==
    (mpc = "Returned" /\ SystemAt # {}) =>
        /\ system_prompt = messages[FirstSystem].content
        /\ filtered_messages =
               [k \in 1..(Len(messages) - 1) |->
                   message_to_append(Without(FirstSystem)[k])]

\* C19 as the code has it: the returned system prompt is the content of the
\* last system message (None when there is none), and the returned list
\* holds the translations of the messages of the other roles, in order, and
\* no system message.
C19_LastSystemHonoured ==
    mpc = "Returned" =>
        /\ system_prompt = IF SystemAt = {} THEN None
                           ELSE messages[LastSystem].content
        /\ LET others == SelectSeq(messages, LAMBDA message : message.role # "system")
           IN filtered_messages =
                  [k \in 1..Len(others) |-> message_to_append(others[k])]
        /\ \A k \in DOMAIN filtered_messages : filtered_messages[k].role # "system"

\* a call returned for a list with two system messages of different
\* contents around a user message
C19_Witness ==
    /\ mpc = "Returned"
    /\ Len(messages) = 3
    /\ messages[1].role = "system"
    /\ messages[2].role = "user"
    /\ messages[3].role = "system"
    /\ messages[1].content # messages[3].content


-----------------------------------------------------------------------------
(* The claim about a failing send, checked under SpecDispatch.             *)

\* C20: once a send has raised, the dispatch pulls no further chunk and
\* calls send no more: the sends and the pulls stay as they were when the
\* send raised.
C20_NothingAfterFailedSend ==
    sendFailed.failed =>
        /\ Len(sink) = sendFailed.sends
        /\ idx = sendFailed.pulls

\* the second send of a dispatch raised while the upstream still had
\* chunks to yield
C20_Witness ==
    /\ sendFailed.failed
    /\ pc = "Failed"
    /\ sendFailed.sends >= 2
    /\ idx < Len(chunks)


-----------------------------------------------------------------------------
(* Claims about the order of the admission checks, the pruning and the     *)
(* partition by identity, checked under SpecAdmit.                         *)

\* C26: the checks run in the order registration, stake, rate: a caller the
\* policy bars as non registered gets that reason, a registered caller
\* below the threshold gets the low-stake reason whatever its window holds,
\* and a call rejected by either check leaves request_timestamps as it was,
\* for every identity.
C26_EarlyRejectionLeavesRateState ==
    [][last'.called =>
        /\ (last'.hotkey \notin DOMAIN metagraph /\ ALLOW_NON_REGISTERED = FALSE)
              => (~last'.raised /\ last'.blacklist[2].kind = "non registered")
        /\ (last'.hotkey \in DOMAIN metagraph
                /\ metagraph[last'.hotkey] < last'.blacklist_amt)
              => (~last'.raised /\ last'.blacklist[2].kind = "low stake")
        /\ (~last'.raised /\ last'.blacklist[1] = TRUE
                /\ last'.blacklist[2].kind \in {"non registered", "low stake"})
              => request_timestamps' = request_timestamps]_vars

\* a call was rejected for low stake while its caller's window held an
\* elapsed timestamp and the limit was reached
C26_Witness ==
    /\ Rejected
    /\ last.blacklist[2].kind = "low stake"
    /\ last.before # <<>>
    /\ Len(last.before) >= MAX_REQUESTS
    /\ last.current_time - last.before[1] > time_window
    /\ After = last.before

\* the caller's window as the pruning step of the latest call left it
Kept == IF Admitted THEN Front(After) ELSE After

\* C27: after the pruning step of a call that reached it, the caller's
\* window holds no timestamp older than the call's clock reading minus
\* time_window, and its timestamps are in non-decreasing order, whatever
\* the clock readings of the earlier calls were.
C27_PrunedWindowFreshAndSorted ==
    (last.called /\ PassedStake) =>
        /\ \A i \in 1..Len(Kept) : last.current_time - Kept[i] <= time_window
        /\ \A i \in 1..(Len(Kept) - 1) : Kept[i] <= Kept[i + 1]


\* what a call decides when it sees nothing but the metagraph, the policy
\* and its own caller's window
OwnDecision(hotkey, blacklist_amt, current_time, window) ==
    IF hotkey \notin DOMAIN metagraph
    THEN IF ALLOW_NON_REGISTERED = FALSE
         THEN <<TRUE, ReasonNonRegistered(hotkey)>>
         ELSE None
    ELSE IF metagraph[hotkey] < blacklist_amt
    THEN <<TRUE, ReasonLowStake(hotkey, metagraph[hotkey], blacklist_amt)>>
    ELSE LET \* the timestamps the left-to-right pruning pops
             headOld == {i \in DOMAIN window :
                            \A j \in 1..i : current_time - window[j] > time_window}
         IN IF Len(window) - Cardinality(headOld) >= MAX_REQUESTS
            THEN <<TRUE, ReasonFrequency(hotkey, Len(window) - Cardinality(headOld))>>
            ELSE <<FALSE, ReasonAccepting(hotkey)>>

\* C28: a call by one identity leaves the window of every other identity as
\* it was (none is created, pruned or appended to), and what the call
\* returns depends on the metagraph, the policy and the caller's own window
\* only: the requests of other identities never change it.
C28_PartitionedByIdentity ==
    [][last'.called =>
        /\ \A hotkey \in Hotkeys \ {last'.hotkey} :
              /\ hotkey \in DOMAIN request_timestamps'
                    <=> hotkey \in DOMAIN request_timestamps
              /\ Window(request_timestamps', hotkey)
                    = Window(request_timestamps, hotkey)
        /\ last'.blacklist
              = OwnDecision(last'.hotkey, last'.blacklist_amt, last'.current_time,
                            Window(request_timestamps, last'.hotkey))]_vars

\* identity hk1 was admitted while the window of hk2 was full: the full
\* window of the one did not count against the other
C28_Witness ==
    /\ Admitted
    /\ MAX_REQUESTS = 2
    /\ \E hotkey \in DOMAIN request_timestamps :
           /\ hotkey # last.hotkey
           /\ Len(request_timestamps[hotkey]) = MAX_REQUESTS
           /\ \A i \in 1..MAX_REQUESTS :
                  last.current_time - request_timestamps[hotkey][i] <= time_window
                  /\ last.current_time >= request_timestamps[hotkey][i]


-----------------------------------------------------------------------------
(* Further claims about the streaming dispatch, checked under SpecDispatch. *)

\* the messages of the sink sent with more_body = TRUE
Payloads == SelectSeq(sink, LAMBDA msg : msg.more_body = TRUE)

\* C29: a chunk with an empty text is not taken for the end of the stream.
\* A send with more_body = FALSE is only ever the last send, made once the
\* upstream is exhausted; and while no send has raised, the chunks pulled
\* so far, those after an empty one included, have all been streamed: the
\* payloads carry the deltas pulled (for Gemini: one send per part pulled).
C29_EmptyDeltaIsNotFinal ==
    /\ \A i \in 1..Len(sink) :
          sink[i].more_body = FALSE =>
              (i = Len(sink) /\ idx = Len(chunks) /\ pc # "Streaming")
    /\ (~sendFailed.failed /\ provider \in KnownProviders) =>
          IF provider = "Gemini"
          THEN Len(Payloads) = Len(Join(SubSeq(chunks, 1, idx)))
          ELSE Join(Bodies(Payloads)) = Join(Deltas(idx))

\* an empty-delta chunk was pulled, sent as an empty payload with
\* more_body = TRUE, and the chunk after it was streamed
C29_Witness ==
    /\ ~sendFailed.failed
    /\ idx >= 2
    /\ provider # "Gemini"
    /\ Delta(chunks[idx - 1]) = <<>>
    /\ Delta(chunks[idx]) # <<>>
    /\ Len(sink) >= 2
    /\ sink[idx - 1] = Msg(<<>>, TRUE)
    /\ sink[idx] = Msg(Delta(chunks[idx]), TRUE)


\* C25: a Bedrock dispatch with an ai21 model, whose upstream answers with
\* one non-streaming response, has sent the whole answer in one payload
\* send and has closed the stream: the last send has more_body = FALSE,
\* every earlier one has more_body = TRUE, and the bodies carry the answer.
C25_Ai21StreamOfLengthOne ==
    (/\ pc = "Completed"
     /\ provider = "Bedrock"
     /\ model = "ai21"
     /\ errAt = NoError)
    => /\ sink # <<>>
       /\ Len(sink) <= 2
       /\ Last(sink).more_body = FALSE
       /\ \A i \in 1..(Len(sink) - 1) : sink[i].more_body = TRUE
       /\ Join(Bodies(sink)) = extract_token(model, chunks[1])


\* the dispatch is over: it has returned, or a send with more_body = FALSE
\* has been made
Closed ==
    \/ pc \in {"Completed", "Failed"}
    \/ \E i \in 1..Len(sink) : sink[i].more_body = FALSE

\* the moves of a dispatch; one that never starts streaming (unknown
\* provider, unknown Bedrock model) goes from Idle straight to its end
Forward ==
    {<<"Idle", "Streaming">>, <<"Streaming", "Streaming">>,
     <<"Streaming", "Completed">>, <<"Streaming", "Failed">>,
     <<"Idle", "Completed">>, <<"Idle", "Failed">>}

\* C23: a dispatch only moves Idle -> Streaming -> Completed or Failed, and
\* once it has made a send with more_body = FALSE, or has failed or
\* completed, it makes no further send, pulls no further chunk and never
\* leaves that state.
C23_ClosedIsTerminal ==
    [][/\ <<pc, pc'>> \in Forward
       /\ Closed => (sink' = sink /\ idx' = idx /\ pc' = pc)]_vars

\* a dispatch closed its stream after three payload sends
C23_Witness ==
    /\ pc = "Completed"
    /\ Len(sink) = 4
    /\ Last(sink) = Terminator
    /\ idx = 3


-----------------------------------------------------------------------------
(* The claim about the upstream calls of an embeddings request, checked    *)
(* under SpecEmbed.                                                        *)

\* the slices of the text list that hold a text that is not blank
NonEmptyBatches ==
    {k \in DOMAIN Batches(texts, batch_size) :
        \E i \in DOMAIN Batches(texts, batch_size)[k] :
            Batches(texts, batch_size)[k][i] \notin Blank}

\* C30: one upstream call is issued for each batch that holds a text that
\* is not blank and none for the others; no call carries an empty input
\* list or a blank text; and all calls are issued before any result is
\* there: no call exists before the request starts, every result belongs
\* to a call, and the calls together carry the surviving texts once each.
C30_OneCallPerNonEmptyBatch ==
    /\ epc = "Idle" => (tasks = <<>> /\ results = <<>>)
    /\ epc # "Idle" =>
          /\ Len(tasks) = Cardinality(NonEmptyBatches)
          /\ Len(results) = Len(tasks)
          /\ \A k \in DOMAIN tasks :
                /\ tasks[k] # <<>>
                /\ \A i \in DOMAIN tasks[k] : tasks[k][i] \notin Blank
          /\ Join(tasks) = Survivors

\* three calls are in flight, none answered, and a batch of blank texts
\* between them was skipped
C30_Witness ==
    /\ epc = "Gathering"
    /\ Len(tasks) = 3
    /\ \A k \in DOMAIN results : results[k] = Pending
    /\ elog = <<"Skipped an empty batch.">>
    /\ batch_size = 1
    /\ texts[2] \in Blank


\* the number of flushes of k deltas with flush size n
Flushes(k) == (k + n - 1) \div n

\* the deltas of the j-th run of n consecutive deltas
Run(j) == SubSeq(Deltas(Len(chunks)), (j - 1) * n + 1, Min(j * n, Len(chunks)))

\* C24: a buffered branch whose upstream yields k >= 1 deltas and ends
\* normally has sent one message for each run of n consecutive deltas (the
\* last run may be shorter), carrying the concatenation of the run, with
\* more_body = TRUE for every flush but the last and more_body = FALSE for
\* the last; nothing is dropped.
C24_FlushRunsOfN ==
    (/\ pc = "Completed"
     /\ errAt = NoError
     /\ Buffered
     /\ Len(chunks) >= 1)
    => sink = [j \in 1..Flushes(Len(chunks)) |->
                  Msg(Join(Run(j)), j < Flushes(Len(chunks)))]


-----------------------------------------------------------------------------
(* The claim about two dispatches in flight, checked under SpecPair.       *)

RECURSIVE Alone(_, _, _, _, _, _)
\* what a dispatch sends when it runs alone from its i-th pull on, with
\* buffer buf, until its upstream ends or raises
Alone(p, m, cs, e, i, buf) ==
    IF p \notin KnownProviders \/ (p = "Bedrock" /\ m \notin BedrockFamilies)
           \/ i \in e
    THEN <<>>
    ELSE IF i = Len(cs)
    THEN OnEnd(p, m, buf)
    ELSE OnChunk(p, m, buf, cs[i + 1]).sends
         \o Alone(p, m, cs, e, i + 1, OnChunk(p, m, buf, cs[i + 1]).buffer)

\* s is an initial part of t
IsPrefix(s, t) == Len(s) <= Len(t) /\ s = SubSeq(t, 1, Len(s))

\* the first dispatch met an error of its own
OwnError ==
    \/ sendFailed.failed
    \/ idx \in errAt
    \/ (provider = "Bedrock" /\ model \notin BedrockFamilies)

\* C21: with a second dispatch in flight, whatever that one does and
\* whenever its provider raises, the first dispatch sends what it sends
\* when run alone: at every moment its sink is an initial part of that
\* sequence, and once it has returned without a failed send its sink is the
\* whole of it; it fails only on an error of its own, and it is not kept
\* from returning.
C21_FailureIsolated ==
    /\ IsPrefix(sink, Alone(provider, model, chunks, errAt, 0, <<>>))
    /\ (Returned /\ ~sendFailed.failed)
          => sink = Alone(provider, model, chunks, errAt, 0, <<>>)
    /\ pc = "Failed" => OwnError
    /\ IsPrefix(other.sink, Alone(other.provider, other.model, other.chunks,
                                  other.errAt, 0, <<>>))

\* the second dispatch failed on its first pull while the first dispatch
\* was streaming, and the first went on to send two payloads and its
\* closing message
C21_Witness ==
    /\ other.pc = "Failed"
    /\ other.sink = <<>>
    /\ pc = "Completed"
    /\ Len(sink) = 3
    /\ Last(sink) = Terminator


-----------------------------------------------------------------------------
\* C22: a dispatch whose provider call hangs still terminates: while the
\* dispatch is in its streaming loop the code has a step to take (a chunk,
\* the end of the stream, an error, or the expiry of a timeout), so it is
\* never stuck waiting for the upstream.
C22_HungDispatchTerminates == (pc = "Streaming") => ENABLED NextDispatch

=============================================================================
